---------------------------- MODULE Spec2Model ----------------------------
(* Model of the enum_discrim derive macros (Discriminants, Into, TryFrom):  *)
(* the primitive-representation resolver, the discriminant scan and the     *)
(* code the three macros emit.                                              *)
(*                                                                          *)
(* Integers of the twelve primitive representations are kept at their real  *)
(* width: a value is the little-endian sequence of its bytes, size_of bytes *)
(* long, two's complement for the signed types.  An integer literal is the  *)
(* sequence of its decimal digits, as LitInt::base10_digits returns it.     *)
EXTENDS Integers, Sequences, FiniteSets, TLC

VARIABLES
    pointer_width,  \* size in bytes of usize / isize on the host running the macro
    attrs,          \* the #[repr] attributes forwarded to the macro (forward_attrs(repr))
    variants,       \* the enum's variants, in source order
    D,              \* the integer type scan_variants is instantiated with
    resolved,       \* what PrimitiveRepresentation::from_attributes returned
    scanned,        \* what scan_variants::<D> returned
    expansion,      \* what each derive macro expanded to
    call            \* the last call of a generated function and what it returned

vars == <<pointer_width, attrs, variants, D, resolved, scanned, expansion, call>>

-----------------------------------------------------------------------------
(* Bounds of the model.                                                     *)

\* longest variant list handed to scan_variants alone
MaxVariants == 3
\* longest variant list of an enum handed to a derive macro
MaxEnumVariants == 2
\* most #[repr(...)] attributes on one enum
MaxAttrs == 2
\* most items in all the #[repr(...)] lists of one enum
MaxItems == 2

-----------------------------------------------------------------------------
(* Results and errors.                                                      *)

Ok(v) == [ok |-> TRUE, value |-> v, errors |-> <<>>]

Err(e) == [ok |-> FALSE, value |-> <<>>, errors |-> <<e>>]

\* darling::Error::multiple
Multiple(es) == [ok |-> FALSE, value |-> <<>>, errors |-> es]

\* a result that was never produced
NotRun == [ok |-> FALSE, value |-> <<>>, errors |-> <<>>]

\* an error: its message and the span it is attached to
Error(msg, span) == [msg |-> msg, span |-> span]

MissingRepr == "#[repr(inttype)] must be specified"

InvalidRepr == "Invalid primitive representation"

NotIntLiteral == "Discriminant must be an integer literal"

UnexpectedLitType == "Unexpected literal type"

PosOverflow == "number too large to fit in target type"

UnsupportedShape == "Unsupported shape"

UnsupportedFormat == "Unsupported format"

-----------------------------------------------------------------------------
(* The twelve primitive representations and their arithmetic.               *)

Unsigned == {"u8", "u16", "u32", "u64", "u128", "usize"}

Signed == {"i8", "i16", "i32", "i64", "i128", "isize"}

PrimitiveRepresentation == Unsigned \cup Signed

PointerWidths == {4, 8}

size_of(ty, pw) ==
    CASE ty \in {"u8", "i8"} -> 1
      [] ty \in {"u16", "i16"} -> 2
      [] ty \in {"u32", "i32"} -> 4
      [] ty \in {"u64", "i64"} -> 8
      [] ty \in {"u128", "i128"} -> 16
      [] ty \in {"usize", "isize"} -> pw

\* <ty as Default>::default(): zero
default(ty, pw) == [i \in 1..size_of(ty, pw) |-> 0]

\* <ty>::MAX
MAX(ty, pw) ==
    [i \in 1..size_of(ty, pw) |->
        IF ty \in Signed /\ i = size_of(ty, pw) THEN 127 ELSE 255]

\* <ty>::MIN
MIN(ty, pw) ==
    [i \in 1..size_of(ty, pw) |->
        IF ty \in Signed /\ i = size_of(ty, pw) THEN 128 ELSE 0]

\* bytes + 1, the carry out of the last byte dropped
RECURSIVE wrapping_add_1(_)
wrapping_add_1(bytes) ==
    IF bytes = <<>> THEN <<>>
    ELSE IF Head(bytes) = 255 THEN <<0>> \o wrapping_add_1(Tail(bytes))
    ELSE <<Head(bytes) + 1>> \o Tail(bytes)

\* bytes + 1, staying at the all-ones pattern
saturating_add_1(bytes) ==
    IF \A i \in 1..Len(bytes) : bytes[i] = 255 THEN bytes
    ELSE wrapping_add_1(bytes)

\* Increment::increment, lib.rs: self.wrapping_add(1)
increment(value) == wrapping_add_1(value)

\* bytes * 10 + carry, byte by byte: <<the low Len(bytes) bytes, the carry out>>
RECURSIVE mul10_add(_, _)
mul10_add(bytes, carry) ==
    IF bytes = <<>> THEN <<<<>>, carry>>
    ELSE LET t == Head(bytes) * 10 + carry
             rest == mul10_add(Tail(bytes), t \div 256)
         IN  <<<<t % 256>> \o rest[1], rest[2]>>

\* whether the unsigned pattern bytes is a value of ty that is >= 0
Fits(ty, bytes) ==
    ty \in Unsigned \/ bytes[Len(bytes)] < 128

\* <ty as FromStr>::from_str on a string of decimal digits: each digit is
\* folded in with checked_mul(10) and checked_add(digit)
RECURSIVE from_digits(_, _, _)
from_digits(ty, acc, digits) ==
    IF digits = <<>> THEN Ok(acc)
    ELSE LET r == mul10_add(acc, Head(digits))
         IN  IF r[2] # 0 \/ ~Fits(ty, r[1]) THEN Err(PosOverflow)
             ELSE from_digits(ty, r[1], Tail(digits))

\* LitInt::base10_parse::<ty>(): the literal's digits, parsed by ty's FromStr
base10_parse(ty, pw, digits) == from_digits(ty, default(ty, pw), digits)

\* the bytes of a sequence in the opposite order
RECURSIVE Reverse(_)
Reverse(s) == IF s = <<>> THEN <<>> ELSE Reverse(Tail(s)) \o <<Head(s)>>

\* big-endian bytes divided by 10: <<the quotient, the remainder>>
RECURSIVE div10(_, _)
div10(be, rem) ==
    IF be = <<>> THEN <<<<>>, rem>>
    ELSE LET t == rem * 256 + Head(be)
             rest == div10(Tail(be), t % 10)
         IN  <<<<t \div 10>> \o rest[1], rest[2]>>

\* the decimal digits of the unsigned number with big-endian bytes be, none for zero
RECURSIVE digits_of(_)
digits_of(be) ==
    IF \A i \in 1..Len(be) : be[i] = 0 THEN <<>>
    ELSE LET qr == div10(be, 0) IN digits_of(qr[1]) \o <<qr[2]>>

\* how an integer is written in decimal (Display): bytes is little-endian, >= 0
to_string(bytes) ==
    IF \A i \in 1..Len(bytes) : bytes[i] = 0 THEN <<0>>
    ELSE digits_of(Reverse(bytes))

-----------------------------------------------------------------------------
(* Variants and their discriminant expressions (syn::Variant).              *)

\* Variant::discriminant is None
NoDiscriminant == [expr |-> "None", lit |-> "None", digits |-> <<>>]

\* Expr::Lit with Lit::Int: an integer literal, written with these digits
LitInt(digits) == [expr |-> "Lit", lit |-> "Int", digits |-> digits]

\* Expr::Lit with another literal, such as "a"
LitStr == [expr |-> "Lit", lit |-> "Str", digits |-> <<>>]

\* any other expression; -1 is one (Expr::Unary over a literal)
ExprUnary == [expr |-> "Unary", lit |-> "None", digits |-> <<>>]

\* the names of the variants, by position
Idents == <<"A", "B", "C", "D", "E", "F", "G", "H">>

\* syn::Fields of a variant
Fields == {"Unit", "Unnamed", "Named"}

Variant(ident, fields, discriminant) ==
    [ident |-> ident, fields |-> fields, discriminant |-> discriminant]

\* the variant lists of at most n variants, with fields and discriminants from
\* the given sets
VariantLists(n, fields, discriminants) ==
    UNION {[1..k -> fields \X discriminants] : k \in 0..n}

\* a variant list as syn parses it: the i-th variant is named Idents[i]
Parsed(list) ==
    [i \in 1..Len(list) |-> Variant(Idents[i], list[i][1], list[i][2])]

-----------------------------------------------------------------------------
(* scan_variants.                                                           *)

\* the closure given to Iterator::scan: d is the running value; the result is
\* the new running value and the item yielded for the variant
scan_closure(ty, pw, d, variant) ==
    LET disc == variant.discriminant IN
    IF disc.expr = "None" THEN
        \* map_or(Ok(*d), ..): the running value, which is left as it is
        [d |-> d, item |-> Ok([variant |-> variant, value |-> d])]
    ELSE IF disc.expr = "Lit" /\ disc.lit = "Int" THEN
        LET parsed == base10_parse(ty, pw, disc.digits) IN
        IF parsed.ok
        THEN [d |-> increment(parsed.value),
              item |-> Ok([variant |-> variant, value |-> parsed.value])]
        ELSE [d |-> d, item |-> Err(Error(parsed.errors[1], variant.ident))]
    ELSE IF disc.expr = "Lit" THEN
        [d |-> d, item |-> Err(Error(UnexpectedLitType, variant.ident))]
    ELSE
        [d |-> d, item |-> Err(Error(NotIntLiteral, "call_site"))]

\* Iterator::scan over the variants: the closure never returns None, so every
\* variant yields an item
RECURSIVE scan(_, _, _, _)
scan(ty, pw, d, vs) ==
    IF vs = <<>> THEN <<>>
    ELSE LET step == scan_closure(ty, pw, d, Head(vs))
         IN  <<step.item>> \o scan(ty, pw, step.d, Tail(vs))

\* the values the filter_map keeps
RECURSIVE filter_ok(_)
filter_ok(items) ==
    IF items = <<>> THEN <<>>
    ELSE IF Head(items).ok THEN <<Head(items).value>> \o filter_ok(Tail(items))
    ELSE filter_ok(Tail(items))

\* only the first error of the items
first_error(items) ==
    LET bad == SelectSeq(items, LAMBDA r : ~r.ok)
    IN  IF bad = <<>> THEN <<>> ELSE <<bad[1].errors[1]>>

\* the errors the filter_map pushes to the accumulator
RECURSIVE accumulator(_)
accumulator(items) ==
    IF items = <<>> THEN <<>>
    ELSE IF Head(items).ok THEN accumulator(Tail(items))
    ELSE <<Head(items).errors[1]>> \o accumulator(Tail(items))

\* Accumulator::finish().map(|()| vec)
finish(errors, vec) == IF errors = <<>> THEN Ok(vec) ELSE Multiple(errors)

scan_variants(ty, pw, vs) ==
    LET items == scan(ty, pw, default(ty, pw), vs)
    IN  finish(accumulator(items), filter_ok(items))

-----------------------------------------------------------------------------
(* scan_variants::<D> on its own: every type, lists of unit variants.       *)

\* MAX + 1 as an unsigned number one byte longer
AboveMax(ty, pw) == wrapping_add_1(MAX(ty, pw) \o <<0>>)

\* the discriminants tried for a type: none, a small literal, the literals at
\* and just above the type's maximum, a string literal, a non-literal
Discriminants(ty, pw) ==
    { NoDiscriminant, LitInt(<<1>>), LitInt(to_string(MAX(ty, pw))),
      LitInt(to_string(AboveMax(ty, pw))), LitStr, ExprUnary }

Idle == [fn |-> "none", arg |-> "none", ret |-> NotRun]

NotExpanded == [m \in {"Discriminants", "Into", "TryFrom"} |-> NotRun]

InitScan ==
    /\ pointer_width \in PointerWidths
    /\ D \in PrimitiveRepresentation
    /\ \E list \in VariantLists(MaxVariants, {"Unit"}, Discriminants(D, pointer_width)) :
           variants = Parsed(list)
    /\ attrs = <<>>
    /\ resolved = NotRun
    /\ scanned = NotRun
    /\ expansion = NotExpanded
    /\ call = Idle

\* one call of scan_variants::<D>(&data)
ScanVariants ==
    /\ call.fn = "none"
    /\ scanned' = scan_variants(D, pointer_width, variants)
    /\ call' = [fn |-> "scan_variants", arg |-> "none", ret |-> NotRun]
    /\ UNCHANGED <<pointer_width, attrs, variants, D, resolved, expansion>>

NextScan == ScanVariants

SpecScan == InitScan /\ [][NextScan]_vars

-----------------------------------------------------------------------------
(* Properties of scan_variants (checked under SpecScan).                    *)

ScanReturned == call.fn = "scan_variants"

IsImplicit(v) == v.discriminant.expr = "None"

IsLitInt(v) == v.discriminant.expr = "Lit" /\ v.discriminant.lit = "Int"

\* a > b, for decimal digit strings without leading zeros
DecimalGreater(a, b) ==
    \/ Len(a) > Len(b)
    \/ /\ Len(a) = Len(b)
       /\ \E i \in 1..Len(a) : a[i] > b[i] /\ \A j \in 1..(i - 1) : a[j] = b[j]

\* the decimal digits of each type's maximum
MaxDigits == [ty \in PrimitiveRepresentation, pw \in PointerWidths |-> to_string(MAX(ty, pw))]

OutOfRange(v, ty, pw) ==
    IsLitInt(v) /\ DecimalGreater(v.discriminant.digits, MaxDigits[ty, pw])

\* an explicit discriminant that is out of range or is not an integer literal
Offending(v, ty, pw) ==
    ~IsImplicit(v) /\ (~IsLitInt(v) \/ OutOfRange(v, ty, pw))

\* zero incremented n times, wrapping
RECURSIVE Position(_, _, _)
Position(ty, pw, n) ==
    IF n = 0 THEN default(ty, pw) ELSE wrapping_add_1(Position(ty, pw, n - 1))

\* C1: with no explicit discriminant anywhere, scan_variants succeeds and the
\* variant at zero-based position i resolves to i
C1_ImplicitVariantsAreSequential ==
    (ScanReturned /\ \A i \in 1..Len(variants) : IsImplicit(variants[i]))
        => /\ scanned.ok
           /\ Len(scanned.value) = Len(variants)
           /\ \A i \in 1..Len(variants) :
                  scanned.value[i].value = Position(D, pointer_width, i - 1)

IsMaxLiteral(v, ty, pw) ==
    IsLitInt(v) /\ v.discriminant.digits = MaxDigits[ty, pw]

\* C4: a variant set to the type's maximum and followed by an implicit variant:
\* the scan succeeds (no other variant offending) and the implicit variant
\* resolves to 0 for an unsigned type, to the minimum for a signed type
C4_MaxWrapsAround ==
    ScanReturned =>
        \A i \in 1..(Len(variants) - 1) :
            ( /\ IsMaxLiteral(variants[i], D, pointer_width)
              /\ IsImplicit(variants[i + 1])
              /\ \A j \in 1..Len(variants) : ~Offending(variants[j], D, pointer_width) )
            => /\ scanned.ok
               /\ Len(scanned.value) = Len(variants)
               /\ scanned.value[i].value = MAX(D, pointer_width)
               /\ scanned.value[i + 1].value =
                      IF D \in Unsigned THEN default(D, pointer_width)
                      ELSE MIN(D, pointer_width)

\* C4's case: a successful scan of i128::MAX followed by an implicit variant
C4_Witness ==
    /\ ScanReturned
    /\ scanned.ok
    /\ D = "i128"
    /\ \E i \in 1..(Len(variants) - 1) :
           IsMaxLiteral(variants[i], D, pointer_width) /\ IsImplicit(variants[i + 1])

OffendingVariants == SelectSeq(variants, LAMBDA v : Offending(v, D, pointer_width))

\* the error is one the offending variant v gives rise to
ErrorOf(e, v) ==
    IF IsLitInt(v) THEN e.msg = PosOverflow /\ e.span = v.ident
    ELSE e.msg \in {UnexpectedLitType, NotIntLiteral}

\* C5: scan_variants fails iff some variant is offending, and then carries
\* exactly one error per offending variant, in source order
C5_OneErrorPerOffendingVariant ==
    ScanReturned =>
        /\ scanned.ok <=> OffendingVariants = <<>>
        /\ Len(scanned.errors) = Len(OffendingVariants)
        /\ \A k \in 1..Len(scanned.errors) :
               ErrorOf(scanned.errors[k], OffendingVariants[k])
        /\ scanned.ok => Len(scanned.value) = Len(variants)

\* C5's case: two out-of-range variants, apart, and two errors
C5_Witness ==
    /\ ScanReturned
    /\ Len(variants) = 3
    /\ OutOfRange(variants[1], D, pointer_width)
    /\ ~Offending(variants[2], D, pointer_width)
    /\ OutOfRange(variants[3], D, pointer_width)
    /\ Len(scanned.errors) = 2

-----------------------------------------------------------------------------
(* The #[repr] attributes and PrimitiveRepresentation's parsers.            *)

\* NestedMeta::Meta(Meta::Path): a bare name, such as u8 or C
MetaPath(path) == [meta |-> "Path", path |-> path]

\* any other nested item, such as align(4)
MetaList(path) == [meta |-> "List", path |-> path]

\* #[repr(items)]
ReprList(items) == [path |-> "repr", meta |-> "List", nested |-> items]

\* #[repr], with no list
ReprWord == [path |-> "repr", meta |-> "Path", nested |-> <<>>]

\* the sequences of at most n elements of S
SeqUpTo(n, S) == UNION {[1..k -> S] : k \in 0..n}

\* the lists of at most n #[repr] attributes holding at most m items in all
RECURSIVE AttrLists(_, _, _)
AttrLists(n, m, items) ==
    IF n = 0 THEN {<<>>}
    ELSE {<<>>}
         \cup {<<ReprWord>> \o rest : rest \in AttrLists(n - 1, m, items)}
         \cup UNION {{<<ReprList(l)>> \o rest :
                          l \in [1..k -> items], rest \in AttrLists(n - 1, m - k, items)} :
                     k \in 0..m}

\* <PrimitiveRepresentation as FromStr>::from_str
from_str(s) ==
    IF s \in {"u8", "u16", "u32", "u64", "u128", "usize",
              "i8", "i16", "i32", "i64", "i128", "isize"}
    THEN Ok(s)
    ELSE Err(InvalidRepr)

\* PrimitiveRepresentation::from_nested_meta
from_nested_meta(item) ==
    IF item.meta = "Path"
    THEN LET r == from_str(item.path)
         IN  IF r.ok THEN r ELSE Err(Error(r.errors[1], item.path))
    ELSE Err(Error(InvalidRepr, item.path))

\* from_list that fails on the first item that is no integer type
from_list_strict(items) ==
    IF items = <<>> THEN Err(Error(MissingRepr, "call_site"))
    ELSE LET bad == SelectSeq(items, LAMBDA item : ~from_nested_meta(item).ok)
         IN  IF bad = <<>> THEN from_nested_meta(items[1])
             ELSE from_nested_meta(bad[1])

\* from_list that keeps the last integer type of the list
from_list_last(items) ==
    LET found == SelectSeq(items, LAMBDA item : from_nested_meta(item).ok)
    IN  IF found = <<>> THEN Err(Error(MissingRepr, "call_site"))
        ELSE from_nested_meta(found[Len(found)])

\* PrimitiveRepresentation::from_list: find_map keeps the first item that
\* parses and drops the errors of the others
from_list(items) ==
    LET found == SelectSeq(items, LAMBDA item : from_nested_meta(item).ok)
    IN  IF found = <<>> THEN Err(Error(MissingRepr, "call_site"))
        ELSE from_nested_meta(found[1])

\* darling::util::parse_attribute_to_meta_list
parse_attribute_to_meta_list(attr) ==
    IF attr.meta = "List" THEN Ok(attr.nested)
    ELSE Err(Error(UnsupportedFormat, attr.path))

\* from_attributes that falls back to isize when there is no #[repr]
from_attributes_or_isize(as) ==
    LET found == SelectSeq(as, LAMBDA attr : attr.path = "repr")
    IN  IF found = <<>> THEN Ok("isize")
        ELSE LET meta == parse_attribute_to_meta_list(found[1])
             IN  IF meta.ok THEN from_list(meta.value) ELSE meta

\* PrimitiveRepresentation::from_attributes: the first attribute named repr
from_attributes(as) ==
    LET found == SelectSeq(as, LAMBDA attr : attr.path = "repr")
    IN  IF found = <<>> THEN Err(Error(MissingRepr, "call_site"))
        ELSE LET meta == parse_attribute_to_meta_list(found[1])
             IN  IF meta.ok THEN from_list(meta.value) ELSE meta

-----------------------------------------------------------------------------
(* from_attributes on its own.                                              *)

\* the items tried in a #[repr(...)] list
ReprItems ==
    {MetaPath(p) : p \in {"u8", "u16", "isize", "C", "u7"}} \cup {MetaList("align")}

InitRepr ==
    /\ pointer_width \in PointerWidths
    /\ attrs \in AttrLists(MaxAttrs, MaxItems, ReprItems)
                    \cup {<<ReprList(<<MetaPath(ty)>>)>> : ty \in PrimitiveRepresentation}
    /\ variants = <<>>
    /\ D = "none"
    /\ resolved = NotRun
    /\ scanned = NotRun
    /\ expansion = NotExpanded
    /\ call = Idle

\* one call of PrimitiveRepresentation::from_attributes(&attrs)
FromAttributes ==
    /\ call.fn = "none"
    /\ resolved' = from_attributes(attrs)
    /\ call' = [fn |-> "from_attributes", arg |-> "none", ret |-> NotRun]
    /\ UNCHANGED <<pointer_width, attrs, variants, D, scanned, expansion>>

NextRepr == FromAttributes

SpecRepr == InitRepr /\ [][NextRepr]_vars

-----------------------------------------------------------------------------
(* The three derive macros.                                                 *)

\* #[darling(supports(enum_any))]: every enum is accepted
supports_enum_any(vs) == Ok(vs)

\* a shape check that lets every enum through
supports_enum_unit_lax(vs) == Ok(vs)

\* #[darling(supports(enum_unit))]: every variant must be a unit variant
supports_enum_unit(vs) ==
    LET bad == SelectSeq(vs, LAMBDA v : v.fields # "Unit")
    IN  IF bad = <<>> THEN Ok(vs) ELSE Err(Error(UnsupportedShape, bad[1].ident))

\* discriminants::derive: the impl block with discriminant() and one const
\* <Variant>_D per scanned variant
discriminants_derive(as, vs, pw) ==
    LET input == supports_enum_any(vs) IN
    IF ~input.ok THEN input ELSE
    LET repr == from_attributes(as) IN
    IF ~repr.ok THEN repr ELSE
    LET scan_result == scan_variants(repr.value, pw, vs) IN
    IF ~scan_result.ok THEN scan_result ELSE
    Ok([repr |-> repr.value,
        items |-> [i \in 1..Len(scan_result.value) |->
                      [name |-> scan_result.value[i].variant.ident,
                       value |-> scan_result.value[i].value]]])

\* try_from::derive: impl TryFrom<repr> with one match arm per scanned variant
try_from_derive(as, vs, pw) ==
    LET input == supports_enum_unit(vs) IN
    IF ~input.ok THEN input ELSE
    LET repr == from_attributes(as) IN
    IF ~repr.ok THEN repr ELSE
    LET scan_result == scan_variants(repr.value, pw, vs) IN
    IF ~scan_result.ok THEN scan_result ELSE
    Ok([repr |-> repr.value,
        items |-> [i \in 1..Len(scan_result.value) |->
                      [name |-> scan_result.value[i].variant.ident,
                       value |-> scan_result.value[i].value]]])

\* an into::derive that scans the variants as the other two macros do
into_derive_scanning(as, vs, pw) ==
    LET r == try_from_derive(as, vs, pw)
    IN  IF ~r.ok THEN r ELSE Ok([repr |-> r.value.repr, items |-> <<>>])

\* into::derive: impl From<E> for repr, whose body is `value as repr`
into_derive(as, vs, pw) ==
    LET input == supports_enum_unit(vs) IN
    IF ~input.ok THEN input ELSE
    LET repr == from_attributes(as) IN
    IF ~repr.ok THEN repr ELSE
    Ok([repr |-> repr.value, items |-> <<>>])

-----------------------------------------------------------------------------
(* What the compiler makes of the enum itself.                              *)

\* the discriminants rustc gives the variants of an enum with representation
\* ty: the explicit literal, else the previous discriminant plus one, from 0.
\* An enum with a discriminant that overflows ty or repeats another one does
\* not compile; one with a discriminant that is no literal of ty is given no
\* discriminants here (the model gives such an expression no value)
RECURSIVE rustc_scan(_, _, _, _, _)
rustc_scan(ty, pw, next, overflowed, vs) ==
    IF vs = <<>> THEN Ok(<<>>)
    ELSE LET v == Head(vs)
             here == IF v.discriminant.expr = "None"
                     THEN IF overflowed THEN Err("E0370") ELSE Ok(next)
                     ELSE IF v.discriminant.expr = "Lit" /\ v.discriminant.lit = "Int"
                     THEN base10_parse(ty, pw, v.discriminant.digits)
                     ELSE Err("E0308")
         IN  IF ~here.ok THEN here
             ELSE LET rest == rustc_scan(ty, pw, wrapping_add_1(here.value),
                                         here.value = MAX(ty, pw), Tail(vs))
                  IN  IF ~rest.ok THEN rest
                      ELSE IF \E i \in 1..Len(rest.value) : rest.value[i] = here.value
                      THEN Err("E0081")
                      ELSE Ok(<<here.value>> \o rest.value)

\* the integer type rustc lays the enum out with: the one integer type its
\* #[repr] attributes name, all of them read
rustc_repr(as) ==
    LET named == {item \in UNION {{a.nested[i] : i \in 1..Len(a.nested)} :
                                     a \in {as[k] : k \in 1..Len(as)}} : TRUE}
        ints == {item.path : item \in {x \in named : from_nested_meta(x).ok}}
    IN  IF \E k \in 1..Len(as) : as[k].meta # "List" THEN Err("malformed attribute")
        ELSE IF \E item \in named : item.path \notin PrimitiveRepresentation \cup {"C", "align"}
        THEN Err("E0552")
        ELSE IF Cardinality(ints) # 1 THEN Err("no single integer representation")
        ELSE Ok(CHOOSE ty \in ints : TRUE)

rustc_discriminants(as, vs, pw) ==
    LET repr == rustc_repr(as)
    IN  IF ~repr.ok THEN repr
        ELSE rustc_scan(repr.value, pw, default(repr.value, pw), FALSE, vs)

-----------------------------------------------------------------------------
(* The macros applied to an enum, and the code they generate at work.       *)

\* Error::write_errors: compile_error! invocations and no other code
write_errors(result) == Multiple(result.errors)

\* lib.rs derive_discriminants
derive_discriminants(as, vs, pw) ==
    LET r == discriminants_derive(as, vs, pw) IN IF r.ok THEN r ELSE write_errors(r)

\* lib.rs derive_into
derive_into(as, vs, pw) ==
    LET r == into_derive(as, vs, pw) IN IF r.ok THEN r ELSE write_errors(r)

\* lib.rs derive_try_from
derive_try_from(as, vs, pw) ==
    LET r == try_from_derive(as, vs, pw) IN IF r.ok THEN r ELSE write_errors(r)

\* the items tried in the #[repr(...)] list of a derived enum
EnumReprItems == {MetaPath("u8"), MetaPath("C")}

\* the discriminants tried in a derived enum: none, 2, 256, a non-literal
EnumDiscriminants == {NoDiscriminant, LitInt(<<2>>), LitInt(<<2, 5, 6>>), ExprUnary}

Init ==
    /\ pointer_width \in PointerWidths
    /\ attrs \in AttrLists(1, MaxItems, EnumReprItems)
    /\ \E list \in VariantLists(MaxEnumVariants, Fields, EnumDiscriminants) :
           variants = Parsed(list)
    /\ D = "none"
    /\ resolved = NotRun
    /\ scanned = NotRun
    /\ expansion = NotExpanded
    /\ call = Idle

Expanded(m) == expansion[m].ok \/ expansion[m].errors # <<>>

Failed(m) == ~expansion[m].ok /\ expansion[m].errors # <<>>

\* #[derive(Discriminants)] on the enum
DeriveDiscriminants ==
    /\ call.fn = "none"
    /\ ~Expanded("Discriminants")
    /\ expansion' = [expansion EXCEPT
           !["Discriminants"] = derive_discriminants(attrs, variants, pointer_width)]
    /\ UNCHANGED <<pointer_width, attrs, variants, D, resolved, scanned, call>>

\* #[derive(Into)] on the enum
DeriveInto ==
    /\ call.fn = "none"
    /\ ~Expanded("Into")
    /\ expansion' = [expansion EXCEPT
           !["Into"] = derive_into(attrs, variants, pointer_width)]
    /\ UNCHANGED <<pointer_width, attrs, variants, D, resolved, scanned, call>>

\* #[derive(TryFrom)] on the enum
DeriveTryFrom ==
    /\ call.fn = "none"
    /\ ~Expanded("TryFrom")
    /\ expansion' = [expansion EXCEPT
           !["TryFrom"] = derive_try_from(attrs, variants, pointer_width)]
    /\ UNCHANGED <<pointer_width, attrs, variants, D, resolved, scanned, call>>

\* the crate compiles: no macro wrote a compile_error! and rustc accepts the enum
Compiles ==
    /\ \A m \in DOMAIN expansion : ~Failed(m)
    /\ rustc_discriminants(attrs, variants, pointer_width).ok

\* the generated discriminant(): the first size_of(repr) bytes of the value,
\* which hold the discriminant rustc gave its variant
discriminant(as, vs, pw, i) == rustc_discriminants(as, vs, pw).value[i]

\* the generated From<E> for repr: `value as repr`
from(as, vs, pw, i) == rustc_discriminants(as, vs, pw).value[i]

\* the generated try_from: the first arm whose pattern is the value, else the
\* TryFromError naming the enum
try_from(arms, value) ==
    LET hit == SelectSeq(arms, LAMBDA arm : arm.value = value)
    IN  IF hit = <<>> THEN Err("TryFromError") ELSE Ok(hit[1].name)

\* self.discriminant() on an instance of the i-th variant
CallDiscriminant ==
    /\ expansion["Discriminants"].ok
    /\ Compiles
    /\ \E i \in 1..Len(variants) :
           call' = [fn |-> "discriminant", arg |-> variants[i].ident,
                    ret |-> Ok(discriminant(attrs, variants, pointer_width, i))]
    /\ UNCHANGED <<pointer_width, attrs, variants, D, resolved, scanned, expansion>>

\* repr::from(v) for the i-th variant v
CallFrom ==
    /\ expansion["Into"].ok
    /\ Compiles
    /\ \E i \in 1..Len(variants) :
           call' = [fn |-> "from", arg |-> variants[i].ident,
                    ret |-> Ok(from(attrs, variants, pointer_width, i))]
    /\ UNCHANGED <<pointer_width, attrs, variants, D, resolved, scanned, expansion>>

\* the integers try_from is called with: 0, 1, .., the discriminants of the
\* variants and the patterns of the arms
Integers(ty, pw) ==
    {Position(ty, pw, n) : n \in 0..Len(variants)}
        \cup {rustc_discriminants(attrs, variants, pw).value[i] : i \in 1..Len(variants)}
        \cup {expansion["TryFrom"].value.items[i].value : i \in 1..Len(variants)}

\* E::try_from(value); arg is the variant the value was converted from, when
\* the value is the one the last call, a repr::from(v), returned
CallTryFrom ==
    /\ expansion["TryFrom"].ok
    /\ Compiles
    /\ \E value \in Integers(expansion["TryFrom"].value.repr, pointer_width) :
           call' = [fn |-> "try_from",
                    arg |-> IF call.fn = "from" /\ call.ret.value = value
                            THEN call.arg ELSE "none",
                    ret |-> try_from(expansion["TryFrom"].value.items, value)]
    /\ UNCHANGED <<pointer_width, attrs, variants, D, resolved, scanned, expansion>>

Next ==
    \/ DeriveDiscriminants
    \/ DeriveInto
    \/ DeriveTryFrom
    \/ CallDiscriminant
    \/ CallFrom
    \/ CallTryFrom

Spec == Init /\ [][Next]_vars

-----------------------------------------------------------------------------
(* Properties of from_attributes (checked under SpecRepr).                  *)

Resolved == call.fn = "from_attributes"

\* the integer types the items of a list name, in order
Named(items) == SelectSeq(items, LAMBDA item : item.meta = "Path" /\ item.path \in PrimitiveRepresentation)

\* the integer types all the #[repr] attributes name
RECURSIVE AllNamed(_)
AllNamed(as) ==
    IF as = <<>> THEN {}
    ELSE {Named(Head(as).nested)[i].path : i \in 1..Len(Named(Head(as).nested))}
             \cup AllNamed(Tail(as))

\* a #[repr(...)] list is present and holds items, none of them an integer type
Unrecognized ==
    /\ attrs # <<>>
    /\ attrs[1].meta = "List"
    /\ attrs[1].nested # <<>>
    /\ AllNamed(attrs) = {}

\* C7 as stated: a declaration whose spelling is none of the 12 types fails
\* with "Invalid primitive representation"
C7_UnrecognizedIsInvalidRepr ==
    (Resolved /\ Unrecognized)
        => /\ ~resolved.ok
           /\ \E k \in 1..Len(resolved.errors) : resolved.errors[k].msg = InvalidRepr

\* C7 amended: such a declaration fails with the very error of a missing
\* declaration, "#[repr(inttype)] must be specified"; the "Invalid primitive
\* representation" of its items is dropped
C7_UnrecognizedIsMissingRepr ==
    (Resolved /\ (Unrecognized \/ attrs = <<>>))
        => /\ ~resolved.ok
           /\ resolved.errors = <<Error(MissingRepr, "call_site")>>

\* C7's case: #[repr(C)] or #[repr(u7)] alone, resolved
C7_Witness ==
    /\ Resolved
    /\ attrs \in {<<ReprList(<<MetaPath("C")>>)>>, <<ReprList(<<MetaPath("u7")>>)>>}
    /\ ~resolved.ok

\* C8 as stated: the resolver succeeds only when exactly one integer type is named
C8_SucceedsOnlyOnOneWidth ==
    (Resolved /\ resolved.ok) => Cardinality(AllNamed(attrs)) = 1

\* C8 amended: the resolver succeeds exactly when the first #[repr] attribute
\* is a list naming an integer type, and returns the first one that list
\* names, whatever else is named after it; it fails when none is named
C8_FirstWidthOfFirstAttribute ==
    Resolved =>
        /\ resolved.ok <=>
               (attrs # <<>> /\ attrs[1].meta = "List" /\ Named(attrs[1].nested) # <<>>)
        /\ resolved.ok => resolved.value = Named(attrs[1].nested)[1].path
        /\ AllNamed(attrs) = {} => ~resolved.ok

\* C8's case: #[repr(u8, u16)] resolves to u8
C8_Witness ==
    /\ Resolved
    /\ attrs = <<ReprList(<<MetaPath("u8"), MetaPath("u16")>>)>>
    /\ resolved.ok
    /\ resolved.value = "u8"

-----------------------------------------------------------------------------
(* Properties of the derive macros (checked under Spec).                    *)

Macros == {"Discriminants", "Into", "TryFrom"}

AllUnit == \A i \in 1..Len(variants) : variants[i].fields = "Unit"

\* the integer type the enum declares, if the resolver finds one
Width == from_attributes(attrs)

OffendingIn(ty) == SelectSeq(variants, LAMBDA v : Offending(v, ty, pointer_width))

HasMsg(errors, msg) == \E k \in 1..Len(errors) : errors[k].msg = msg

\* C2: the constant <Variant>_D equals what discriminant() returns for an
\* instance of that variant
C2_ConstantIsDiscriminant ==
    (expansion["Discriminants"].ok /\ call.fn = "discriminant")
        => \A i \in 1..Len(variants) :
               call.arg = variants[i].ident
                   => /\ expansion["Discriminants"].value.items[i].name = call.arg
                      /\ expansion["Discriminants"].value.items[i].value = call.ret.value

\* C3: converting a variant to its integer and the integer back gives the variant
C3_RoundTrip ==
    (call.fn = "try_from" /\ call.arg # "none") => call.ret = Ok(call.arg)

\* the enum has no #[repr] attribute, or #[repr(...)] lists naming no integer type
NoWidthDeclared ==
    /\ \A k \in 1..Len(attrs) : attrs[k].meta = "List"
    /\ AllNamed(attrs) = {}

\* C6 as stated: with no width declaration every macro fails with
\* "#[repr(inttype)] must be specified" and emits no code
C6_NoReprIsMissingRepr ==
    \A m \in Macros :
        (Expanded(m) /\ NoWidthDeclared)
            => /\ ~expansion[m].ok
               /\ HasMsg(expansion[m].errors, MissingRepr)
               /\ expansion[m].value = <<>>

\* C6 amended: with no width declaration every macro fails and emits no code;
\* the error is "#[repr(inttype)] must be specified" for Discriminants, and
\* for Into and TryFrom on an enum of unit variants; on an enum with a
\* data-carrying variant Into and TryFrom report the unsupported shape instead
C6_NoReprFails ==
    \A m \in Macros :
        (Expanded(m) /\ NoWidthDeclared)
            => /\ ~expansion[m].ok
               /\ expansion[m].value = <<>>
               /\ expansion[m].errors =
                      IF m = "Discriminants" \/ AllUnit
                      THEN <<Error(MissingRepr, "call_site")>>
                      ELSE <<Error(UnsupportedShape,
                                   SelectSeq(variants, LAMBDA v : v.fields # "Unit")[1].ident)>>

\* C6's case: the three macros expanded on an enum with variants and no #[repr]
C6_Witness ==
    /\ attrs = <<>>
    /\ variants # <<>>
    /\ AllUnit
    /\ \A m \in Macros : Failed(m)

\* the enum has no usable width declaration and an offending discriminant
BadWidthAndDiscriminant ==
    /\ ~Width.ok
    /\ \E i \in 1..Len(variants) : ~IsImplicit(variants[i]) /\ ~IsLitInt(variants[i])

C10_OnlyDiscriminantsTakesData ==
    /\ \A m \in {"Into", "TryFrom"} :
           (Expanded(m) /\ ~AllUnit)
               => /\ ~expansion[m].ok
                  /\ expansion[m].errors # <<>>
                  /\ \A k \in 1..Len(expansion[m].errors) :
                         expansion[m].errors[k].msg = UnsupportedShape
    /\ (Expanded("Discriminants") /\ Width.ok /\ OffendingIn(Width.value) = <<>>)
           => /\ expansion["Discriminants"].ok
              /\ Len(expansion["Discriminants"].value.items) = Len(variants)
              /\ \A i \in 1..Len(variants) :
                     expansion["Discriminants"].value.items[i].name = variants[i].ident

\* C10's case: an enum with a tuple and a struct variant, taken by
\* Discriminants and refused by Into and TryFrom
C10_Witness ==
    /\ Len(variants) >= 2
    /\ variants[1].fields = "Unnamed"
    /\ variants[2].fields = "Named"
    /\ expansion["Discriminants"].ok
    /\ Failed("Into")
    /\ Failed("TryFrom")

\* the enum has unit variants only and a width the resolver finds
UnitEnumWithWidth == AllUnit /\ Width.ok

\* C11 as stated: on a unit-only enum with a valid width declaration, Into
\* fails with the scan's validation errors exactly when TryFrom does, that
\* is whenever some explicit discriminant is offending
C11_IntoFailsWhenTryFromDoes ==
    (UnitEnumWithWidth /\ Expanded("Into") /\ Expanded("TryFrom"))
        => /\ Failed("Into") <=> Failed("TryFrom")
           /\ Failed("Into") <=> OffendingIn(Width.value) # <<>>
           /\ expansion["Into"].errors = expansion["TryFrom"].errors

\* C11 amended: Discriminants and TryFrom run the scan after width selection
\* and fail exactly when some explicit discriminant is offending; Into selects
\* the width and runs no scan, so on a unit-only enum with a valid width it
\* always succeeds, also where TryFrom fails
C11_IntoRunsNoScan ==
    UnitEnumWithWidth =>
        /\ \A m \in {"Discriminants", "TryFrom"} :
               Expanded(m) => (Failed(m) <=> OffendingIn(Width.value) # <<>>)
        /\ Expanded("Into")
               => /\ expansion["Into"].ok
                  /\ expansion["Into"].value.repr = Width.value

\* C11's case: a unit-only #[repr(u8)] enum with an out-of-range discriminant,
\* on which TryFrom failed and Into succeeded
C11_Witness ==
    /\ UnitEnumWithWidth
    /\ \E i \in 1..Len(variants) : OutOfRange(variants[i], Width.value, pointer_width)
    /\ Failed("TryFrom")
    /\ expansion["Into"].ok

=============================================================================
